---- MODULE Spec2Model ----
(***************************************************************************)
(* Model of the rack-designer project container manager:                   *)
(*   src/unnamed/part_001   ($lib/io: the Path class and raw fs helpers)   *)
(*   src/src/lib/project.ts (ProjectManager)                               *)
(*                                                                         *)
(* Representation.  A string is a sequence of characters, each character a *)
(* one-element TLA+ string; the literals of the source that are only ever  *)
(* used as whole path segments ("manifest.json", "assets", ...) are kept   *)
(* as one token.  The file system is a function from resolved paths (the   *)
(* sequence of a path's components) to nodes; relative and absolute path   *)
(* strings resolve against the same root directory.                        *)
(***************************************************************************)
EXTENDS Integers, Sequences, FiniteSets, TLC

(***************************************************************************)
(* Bounds of the model.                                                    *)
(***************************************************************************)
MaxClock == 1
MaxIds == 2
MaxHandles == 2
MaxPending == 0

(***************************************************************************)
(* Strings and the path helpers of @tauri-apps/api/path.                   *)
(***************************************************************************)
sep == "/"

\* String.prototype.split(sep()): the pieces between separators.
RECURSIVE split(_)
split(s) ==
    IF \A i \in 1..Len(s) : s[i] # sep
    THEN <<s>>
    ELSE LET i == CHOOSE k \in 1..Len(s) :
                    s[k] = sep /\ \A j \in 1..(k-1) : s[j] # sep
         IN  <<SubSeq(s, 1, i-1)>> \o split(SubSeq(s, i+1, Len(s)))

\* The components a list of path parts denotes: every part is cut at its
\* separators; empty components and "." components are normalised away.
RECURSIVE componentsOf(_)
componentsOf(parts) ==
    IF parts = <<>>
    THEN <<>>
    ELSE SelectSeq(split(Head(parts)), LAMBDA c : c # <<>> /\ c # <<".">>)
            \o componentsOf(Tail(parts))

RECURSIVE joinComponents(_)
joinComponents(comps) ==
    IF comps = <<>> THEN <<>>
    ELSE IF Len(comps) = 1 THEN comps[1]
    ELSE comps[1] \o <<sep>> \o joinComponents(Tail(comps))

\* join(...paths): every part gets a separator appended, the parts are
\* concatenated and the result is normalised.  A first part that is empty
\* or starts with the separator makes the result start with the separator.
rawJoinPath(parts) ==
    LET abs == parts # <<>> /\ (Head(parts) = <<>> \/ Head(Head(parts)) = sep)
    IN  (IF abs THEN <<sep>> ELSE <<>>) \o joinComponents(componentsOf(parts))

\* The location a path string names.
resolve(str) == componentsOf(<<str>>)

Parent(p) == SubSeq(p, 1, Len(p) - 1)

IsPrefix(p, q) == Len(p) <= Len(q) /\ SubSeq(q, 1, Len(p)) = p

(***************************************************************************)
(* File contents.  JSON.stringify / JSON.parse: a value is serialised to a *)
(* JSON text; parsing any other text (an empty file, an image) throws.     *)
(***************************************************************************)
EmptyText == [kind |-> "empty"]

JSONstringify(value) == [kind |-> "json", value |-> value]

JSONparse(text) ==
    IF text.kind = "json"
    THEN [ok |-> TRUE, value |-> text.value]
    ELSE [ok |-> FALSE, value |-> "SyntaxError"]

(***************************************************************************)
(* The file-system collaborator (@tauri-apps/plugin-fs).  Every operation  *)
(* returns whether it succeeded and the file system it leaves.             *)
(***************************************************************************)
DirNode == [type |-> "dir", content |-> EmptyText]
FileNode(text) == [type |-> "file", content |-> text]

\* A file the process has no permission to write: every call that writes to
\* it (create, writeTextFile, copyFile onto it) is rejected.
ReadOnlyFileNode(text) == [type |-> "file", content |-> text, readonly |-> TRUE]
Writable(f, p) == ~(p \in DOMAIN f /\ "readonly" \in DOMAIN f[p])

IsDir(f, p) == p = <<>> \/ (p \in DOMAIN f /\ f[p].type = "dir")
IsFile(f, p) == p \in DOMAIN f /\ f[p].type = "file"
Exists(f, p) == p = <<>> \/ p \in DOMAIN f

Put(f, p, node) == [q \in DOMAIN f \cup {p} |-> IF q = p THEN node ELSE f[q]]

rawPathExists(f, str) == Exists(f, resolve(str))

\* mkdir(path, {recursive}): with recursive, missing parents are created and
\* an existing directory is not an error.
rawMkdir(f, str, recursive) ==
    LET p == resolve(str)
        prefixes == {SubSeq(p, 1, n) : n \in 1..Len(p)}
    IN  IF recursive
        THEN IF \E q \in prefixes : IsFile(f, q)
             THEN [ok |-> FALSE, fs |-> f]
             ELSE [ok |-> TRUE,
                   fs |-> [q \in DOMAIN f \cup prefixes |->
                              IF q \in DOMAIN f THEN f[q] ELSE DirNode]]
        ELSE IF p # <<>> /\ ~Exists(f, p) /\ IsDir(f, Parent(p))
             THEN [ok |-> TRUE, fs |-> Put(f, p, DirNode)]
             ELSE [ok |-> FALSE, fs |-> f]

\* create(path): creates the file, or truncates it when it exists.
rawCreateFile(f, str) ==
    LET p == resolve(str)
    IN  IF p # <<>> /\ IsDir(f, Parent(p)) /\ ~IsDir(f, p) /\ Writable(f, p)
        THEN [ok |-> TRUE, fs |-> Put(f, p, FileNode(EmptyText))]
        ELSE [ok |-> FALSE, fs |-> f]

\* writeTextFile(path, data): creates or overwrites the file.
rawWriteTextFile(f, str, text) ==
    LET p == resolve(str)
    IN  IF p # <<>> /\ IsDir(f, Parent(p)) /\ ~IsDir(f, p) /\ Writable(f, p)
        THEN [ok |-> TRUE, fs |-> Put(f, p, FileNode(text))]
        ELSE [ok |-> FALSE, fs |-> f]

rawReadTextFile(f, str) ==
    LET p == resolve(str)
    IN  IF IsFile(f, p)
        THEN [ok |-> TRUE, text |-> f[p].content]
        ELSE [ok |-> FALSE, text |-> EmptyText]

rawCopyFile(f, from, to) ==
    LET s == resolve(from)
        d == resolve(to)
    IN  IF /\ IsFile(f, s)
           /\ d # <<>> /\ IsDir(f, Parent(d)) /\ ~IsDir(f, d) /\ Writable(f, d)
        THEN [ok |-> TRUE, fs |-> Put(f, d, FileNode(f[s].content))]
        ELSE [ok |-> FALSE, fs |-> f]

\* remove(path, {recursive}): a directory that is not empty needs recursive.
rawRemoveFileOrDir(f, str, recursive) ==
    LET p == resolve(str)
        below == {q \in DOMAIN f : IsPrefix(p, q) /\ q # p}
    IN  IF p # <<>> /\ p \in DOMAIN f /\ (recursive \/ below = {})
        THEN [ok |-> TRUE,
              fs |-> [q \in (DOMAIN f \ below) \ {p} |-> f[q]]]
        ELSE [ok |-> FALSE, fs |-> f]

(***************************************************************************)
(* rawExtname / rawBasename (extname and basename of @tauri-apps/api/path) *)
(* take one path string.  A JavaScript read of a missing array element     *)
(* yields undefined; what extname does with undefined is the collaborator's *)
(* business: it rejects or returns some fixed string (onUndefined).        *)
(***************************************************************************)
Rejects == [rejects |-> TRUE, value |-> <<>>]
Returns(v) == [rejects |-> FALSE, value |-> v]
ExtnameOnUndefined == {Rejects, Returns(<<>>)}

\* seq[i] of JavaScript: elements are numbered from 0, any other index is
\* undefined.
JsIndex(seq, i) ==
    IF i \in 0..(Len(seq) - 1)
    THEN [defined |-> TRUE, value |-> seq[i + 1]]
    ELSE [defined |-> FALSE, value |-> <<>>]

LastComponent(str) ==
    LET c == resolve(str) IN IF c = <<>> THEN <<>> ELSE c[Len(c)]

\* extname(path): the extension of the last component, without its dot; it
\* rejects when there is none.
rawExtname(arg, onUndefined) ==
    IF ~arg.defined THEN onUndefined
    ELSE LET c == LastComponent(arg.value)
             dots == {i \in 2..Len(c) : c[i] = "."}
         IN  IF dots = {} THEN Rejects
             ELSE LET d == CHOOSE i \in dots : \A j \in dots : j <= i
                  IN  IF d = Len(c) THEN Rejects
                      ELSE Returns(SubSeq(c, d + 1, Len(c)))

rawBasename(str) == LastComponent(str)

\* lstat(path): rejects when nothing is there.
rawLstat(f, str) ==
    LET p == resolve(str)
    IN  IF Exists(f, p)
        THEN [ok |-> TRUE, isDirectory |-> IsDir(f, p)]
        ELSE [ok |-> FALSE, isDirectory |-> FALSE]

(***************************************************************************)
(* class Path (src/unnamed/part_001).  pathParts is held as the list that  *)
(* spreading it (...this.pathParts) yields: the array itself, or, when the *)
(* constructor was given a primitive string (which is no instance of       *)
(* String), the characters of that string.                                 *)
(***************************************************************************)
Chars(s) == [i \in 1..Len(s) |-> <<s[i]>>]

NewPath(strPathParts) == [basePathParts |-> <<>>, pathParts |-> strPathParts]

NewPathWithBase(strPathParts, basePath) ==
    [basePathParts |-> basePath.pathParts, pathParts |-> strPathParts]

NewPathOfString(str) == [basePathParts |-> <<>>, pathParts |-> Chars(str)]

\* new Path(parts, base) with base a primitive string.
NewPathWithBaseString(strPathParts, basePath) ==
    [basePathParts |-> split(basePath), pathParts |-> strPathParts]

Path_absolute(this) == rawJoinPath(this.basePathParts \o this.pathParts)

Path_relativePath(this) == rawJoinPath(this.pathParts)

Path_exists(f, this) == rawPathExists(f, Path_absolute(this))

Path_join(this, strPathParts) ==
    NewPath(split(rawJoinPath(this.pathParts \o strPathParts)))

Ok(f) == [ok |-> TRUE, error |-> "none", fs |-> f]
Failed(e, f) == [ok |-> FALSE, error |-> e, fs |-> f]
Lift(r) == IF r.ok THEN Ok(r.fs) ELSE Failed("IOFailure", r.fs)

\* The guards of touch, mkdir and remove.
existsGuardRejects(f, this, existOk) == Path_exists(f, this) /\ ~existOk
missingGuardRejects(f, this, missingOk) == ~Path_exists(f, this) /\ ~missingOk

Path_touch(f, this, existOk) ==
    IF existsGuardRejects(f, this, existOk)
    THEN Failed("AlreadyExists", f)
    ELSE Lift(rawCreateFile(f, Path_absolute(this)))

Path_mkdir(f, this, existOk, recursive) ==
    IF existsGuardRejects(f, this, existOk)
    THEN Failed("AlreadyExists", f)
    ELSE Lift(rawMkdir(f, Path_absolute(this), recursive))

Path_remove(f, this, missingOk, recursive) ==
    IF missingGuardRejects(f, this, missingOk)
    THEN Failed("NotFound", f)
    ELSE Lift(rawRemoveFileOrDir(f, Path_relativePath(this), recursive))

\* isDir(): lstat of the relative path.
Path_isDir(f, this) ==
    LET stats == rawLstat(f, Path_relativePath(this))
    IN  IF stats.ok
        THEN [ok |-> TRUE, error |-> "none", value |-> stats.isDirectory]
        ELSE [ok |-> FALSE, error |-> "IOFailure", value |-> FALSE]

\* The JavaScript operator ! : a boolean is negated, and any object (a
\* pending promise is one) is truthy, so that its negation is false.
Promise(outcome) == [isObject |-> TRUE, value |-> outcome]
JsNot(v) == IF v.isObject THEN FALSE ELSE ~v.value

\* isFile(): return !this.isDir(), with the promise of isDir() not awaited;
\* a rejection of that promise reaches nobody.
Path_isFile(f, this) ==
    [ok |-> TRUE, error |-> "none", value |-> JsNot(Promise(Path_isDir(f, this)))]

Path_basename(this) == rawBasename(Path_absolute(this))

Path_extension(this, onUndefined) ==
    rawExtname(JsIndex(this.pathParts, -1), onUndefined)

(***************************************************************************)
(* ProjectManager (src/src/lib/project.ts): data and pure helpers.         *)
(***************************************************************************)
Lower == {"a", "b", "c", "d", "e", "f", "g", "h", "i", "j", "k", "l", "m",
          "n", "o", "p", "q", "r", "s", "t", "u", "v", "w", "x", "y", "z"}
Upper == {"A", "B", "C", "D", "E", "F", "G", "H", "I", "J", "K", "L", "M",
          "N", "O", "P", "Q", "R", "S", "T", "U", "V", "W", "X", "Y", "Z"}
Digits == {"0", "1", "2", "3", "4", "5", "6", "7", "8", "9"}
AllowedChars == Lower \cup Upper \cup Digits \cup {"-", "_"}

\* A sanitizer that lets the dot through as well.
sanitizeKeepsDots(str) ==
    [i \in 1..Len(str) |->
        IF str[i] \in AllowedChars \cup {"."} THEN str[i] ELSE "_"]

\* str.replace(/[^a-zA-Z0-9-_]/g, '_')
sanitize(str) ==
    [i \in 1..Len(str) |-> IF str[i] \in AllowedChars THEN str[i] ELSE "_"]

ManifestJson == <<"manifest.json">>
Assets == <<"assets">>
CurrentJson == <<"current.json">>
TexturePrefix == <<"texture_">>

getProjectsFolder == NewPath(<< <<"Rack Designer">>, <<"Projects">> >>)
getLocalDataFolder == NewPath(<<>>)

DefaultRackSize == 42

\* A generator that returns the same identifier every time.
generateUuidRepeating(n) == <<"u1">>

\* uuid v7: the n-th identifier generated; identifiers never repeat.
generateUuid(n) == <<"u" \o ToString(n)>>

\* new Date().toISOString() of a clock reading.
toISOString(t) == [iso |-> t]

NewManifest(name, projectId, t1, t2) ==
    [version   |-> "1.0",
     name      |-> name,
     id        |-> projectId,
     rackSize  |-> DefaultRackSize,
     textures  |-> <<>>,
     createdAt |-> toISOString(t1),
     modifiedAt |-> toISOString(t2)]

NewTexture(textureId, originalName, extension) ==
    [id |-> textureId, originalName |-> originalName, extension |-> extension]

TextureFilename(textureId, extension) ==
    TexturePrefix \o textureId \o extension

getTexturePath(project, texture) ==
    Path_join(project.path,
              <<Assets, TextureFilename(texture.id, texture.extension)>>)

\* A lookup that falls back on the first record when no id matches.
findIndexOrFirst(textures, textureId) ==
    LET hits == {i \in 1..Len(textures) : textures[i].id = textureId}
    IN  IF hits = {} THEN (IF textures = <<>> THEN -1 ELSE 0)
        ELSE (CHOOSE i \in hits : \A j \in hits : i <= j) - 1

\* textures.findIndex(t => t.id === textureId), numbered from 0; -1 if none.
findIndex(textures, textureId) ==
    LET hits == {i \in 1..Len(textures) : textures[i].id = textureId}
    IN  IF hits = {} THEN -1
        ELSE (CHOOSE i \in hits : \A j \in hits : i <= j) - 1

\* textures.splice(0, 1) whatever the index: the first record is removed.
spliceFirst(textures, index) == SubSeq(textures, 2, Len(textures))

\* textures.splice(index, 1): a negative index counts from the end.
splice(textures, index) ==
    LET at == IF index < 0 THEN Len(textures) + index + 1 ELSE index + 1
    IN  IF at \in 1..Len(textures)
        THEN SubSeq(textures, 1, at - 1) \o SubSeq(textures, at + 1, Len(textures))
        ELSE textures

\* A save that reads manifest.json first and keeps the texture records it
\* finds there and the project does not have.
saveManifestMerging(f, project) ==
    LET manifestPath == Path_absolute(Path_join(project.path, <<ManifestJson>>))
        read   == rawReadTextFile(f, manifestPath)
        parsed == JSONparse(read.text)
        mine   == {project.manifest.textures[i].id :
                      i \in 1..Len(project.manifest.textures)}
        others == IF read.ok /\ parsed.ok
                  THEN SelectSeq(parsed.value.textures,
                                 LAMBDA t : t.id \notin mine)
                  ELSE <<>>
    IN  rawWriteTextFile(f, manifestPath,
            JSONstringify([project.manifest EXCEPT !.textures = others \o @]))

\* saveManifest: the manifest, serialised, overwrites <project>/manifest.json.
saveManifest(f, project) ==
    rawWriteTextFile(f,
                     Path_absolute(Path_join(project.path, <<ManifestJson>>)),
                     JSONstringify(project.manifest))

(***************************************************************************)
(* The state.                                                              *)
(*   fs       the file system                                              *)
(*   handles  the Project objects the caller holds (path and the manifest  *)
(*            in memory), by slot                                          *)
(*   tasks    the calls in flight that nobody awaits: createProject does   *)
(*            not await mkdir / touch, openProject does not await          *)
(*            setCurrentProject                                            *)
(*   call     the awaited call in progress (createProject, between the     *)
(*            start of its fire-and-forget calls and its saveManifest)     *)
(*   clock    the last reading of the wall clock                           *)
(*   nextId   the number of the next identifier generateUuid returns       *)
(*   result   what the last completed call returned                        *)
(***************************************************************************)
VARIABLES fs, handles, tasks, call, clock, nextId, result

vars == <<fs, handles, tasks, call, clock, nextId, result>>

Handles == 1..MaxHandles

\* The names createProject is called with, and the folders they sanitize to.
Names == {<<"b">>, <<"b", "!">>}
FolderNames == {sanitize(n) : n \in Names}

\* The environment: a project folder made elsewhere (x, complete with its
\* assets folder), image files the picker can return, and a location with no
\* project (y).
ExternalProject == NewPath(<< <<"x">> >>)
NoProject == NewPath(<< <<"y">> >>)
OpenablePaths == {ExternalProject, NoProject}

PickedT == <<"/", "t", ".", "p", "n", "g">>
Pickable == {PickedT}
Cancelled == [cancelled |-> TRUE, selected |-> <<>>]
Selected(str) == [cancelled |-> FALSE, selected |-> str]
PickerResults == {Cancelled} \cup {Selected(str) : str \in Pickable}

Picture(n) == [kind |-> "image", of |-> n]

ExternalManifest == NewManifest(<<"e">>, <<"p0">>, 0, 0)

InitialFs ==
    LET x == << <<"x">> >>
        t == << <<"t">> >>
    IN  (x :> DirNode)
     @@ (x \o <<ManifestJson>> :> FileNode(JSONstringify(ExternalManifest)))
     @@ (x \o <<Assets>> :> DirNode)
     @@ (resolve(PickedT) :> FileNode(Picture("t.png")))
     @@ (t :> DirNode)
     @@ (t \o << <<"p">> >> :> DirNode)
     @@ (t \o << <<"p">>, <<"n">> >> :> DirNode)
     @@ (t \o << <<"p">>, <<"n">>, <<"g">> >> :> FileNode(Picture("t/p/n/g")))

NoHandle == [live |-> FALSE]
Live(project) ==
    [live |-> TRUE, path |-> project.path, manifest |-> project.manifest]
ProjectOf(handle) == [path |-> handle.path, manifest |-> handle.manifest]

Idle == [op |-> "idle"]

\* The caller starts a call when no awaited call is in progress; at most
\* MaxPending of the calls nobody awaits are then still in flight.
CallerReady == call = Idle /\ Cardinality(tasks) <= MaxPending

\* The caller keeps a returned Project in a slot it already uses or in the
\* first unused one.
Assignable(h) == \A g \in Handles : g < h => handles[g].live

\* new Date(): the clock does not run backwards and may have advanced.
Readings(t) == {u \in {t, t + 1} : u <= MaxClock}

Init ==
    /\ fs = InitialFs
    /\ handles = [h \in Handles |-> NoHandle]
    /\ tasks = {}
    /\ call = Idle
    /\ clock = 0
    /\ nextId = 1
    /\ result = [op |-> "none"]

(***************************************************************************)
(* Calls nobody awaits.  Path.mkdir and Path.touch first await exists()    *)
(* and then call the file system; a rejection of such a call is dropped.   *)
(* With existOk the answer of exists() decides nothing, and the call is    *)
(* taken up at its file-system call.                                       *)
(***************************************************************************)
MkdirTask(path, existOk, recursive) ==
    [kind |-> "mkdir", path |-> path, existOk |-> existOk,
     recursive |-> recursive, text |-> EmptyText,
     stage |-> IF existOk THEN "act" ELSE "check"]

TouchTask(path, existOk) ==
    [kind |-> "touch", path |-> path, existOk |-> existOk,
     recursive |-> FALSE, text |-> EmptyText, stage |-> "check"]

WriteTask(path, text) ==
    [kind |-> "write", path |-> path, existOk |-> TRUE,
     recursive |-> FALSE, text |-> text, stage |-> "act"]

\* The exists() check of a mkdir or touch in flight.
TaskCheck(t) ==
    /\ t \in tasks
    /\ t.stage = "check"
    /\ tasks' = IF existsGuardRejects(fs, t.path, t.existOk)
                THEN tasks \ {t}
                ELSE (tasks \ {t}) \cup {[t EXCEPT !.stage = "act"]}
    /\ UNCHANGED <<fs, handles, call, clock, nextId, result>>

TaskEffect(f, t) ==
    CASE t.kind = "mkdir" -> rawMkdir(f, Path_absolute(t.path), t.recursive)
      [] t.kind = "touch" -> rawCreateFile(f, Path_absolute(t.path))
      [] t.kind = "write" -> rawWriteTextFile(f, Path_absolute(t.path), t.text)

\* The file-system call of a call in flight.
TaskAct(t) ==
    /\ t \in tasks
    /\ t.stage = "act"
    /\ fs' = TaskEffect(fs, t).fs
    /\ tasks' = tasks \ {t}
    /\ UNCHANGED <<handles, call, clock, nextId, result>>

(***************************************************************************)
(* What a call returned: the value, or the error it rejected with.  A      *)
(* returned Project is the one in the caller's slot h; a returned Path is  *)
(* given as its absolute string.                                           *)
(***************************************************************************)
Rejected(op, h, error) ==
    [op |-> op, h |-> h, ok |-> FALSE, error |-> error]
Returned(op, h, value) ==
    [op |-> op, h |-> h, ok |-> TRUE, error |-> "none", value |-> value]
Null == [null |-> TRUE]

(***************************************************************************)
(* ProjectManager.createProject(name).  Lines 110-136 run up to the first  *)
(* await of saveManifest: the four calls of lines 120-125 are started and  *)
(* not awaited, the manifest is built from two readings of the clock.      *)
(***************************************************************************)
\* The calls createProject starts, with a write of current.json among them.
createProjectTasksWithPointer(sanitizedName) ==
    LET projectPath  == Path_join(getProjectsFolder, <<sanitizedName>>)
        manifestPath == Path_join(getProjectsFolder, <<ManifestJson>>)
        assetsPath   == Path_join(getProjectsFolder, <<Assets>>)
    IN  {MkdirTask(getProjectsFolder, TRUE, TRUE),
         MkdirTask(projectPath, FALSE, TRUE),
         MkdirTask(assetsPath, FALSE, TRUE),
         TouchTask(manifestPath, FALSE),
         WriteTask(Path_join(getLocalDataFolder, <<CurrentJson>>),
                   JSONstringify([path |-> projectPath]))}

createProjectTasks(sanitizedName) ==
    LET projectPath  == Path_join(getProjectsFolder, <<sanitizedName>>)
        manifestPath == Path_join(getProjectsFolder, <<ManifestJson>>)
        assetsPath   == Path_join(getProjectsFolder, <<Assets>>)
    IN  {MkdirTask(getProjectsFolder, TRUE, TRUE),
         MkdirTask(projectPath, FALSE, TRUE),
         MkdirTask(assetsPath, FALSE, TRUE),
         TouchTask(manifestPath, FALSE)}

createProjectStart(name) ==
    /\ CallerReady
    /\ nextId <= MaxIds
    /\ \E t1 \in Readings(clock) : \E t2 \in Readings(t1) :
        LET projectId     == generateUuid(nextId)
            sanitizedName == sanitize(name)
            projectPath   == Path_join(getProjectsFolder, <<sanitizedName>>)
            manifest      == NewManifest(name, projectId, t1, t2)
            project       == [path |-> projectPath, manifest |-> manifest]
            started       == tasks \cup createProjectTasks(sanitizedName)
        IN  /\ tasks' = started
            /\ call' = [op |-> "createProject", project |-> project]
            /\ clock' = t2
            /\ nextId' = nextId + 1
    /\ UNCHANGED <<fs, handles, result>>

\* await this.saveManifest(project); return project.  The caller keeps the
\* returned Project in slot h.
createProjectReturn(h) ==
    /\ call.op = "createProject"
    /\ Assignable(h)
    /\ LET w == saveManifest(fs, call.project)
       IN  /\ fs' = w.fs
           /\ IF w.ok
              THEN /\ handles' = [handles EXCEPT ![h] = Live(call.project)]
                   /\ result' = Returned("createProject", h, "project")
              ELSE /\ handles' = handles
                   /\ result' = Rejected("createProject", 0, "IOFailure")
    /\ call' = Idle
    /\ UNCHANGED <<tasks, clock, nextId>>

(***************************************************************************)
(* ProjectManager.openProject(folderName) and setCurrentProject.           *)
(***************************************************************************)
currentInfoPath == Path_join(getLocalDataFolder, <<CurrentJson>>)

\* setCurrentProject(project), which openProject does not await and whose
\* own write is not awaited either.
setCurrentProject(project) ==
    WriteTask(currentInfoPath, JSONstringify(project))

\* The body both branches of openProject share.  When manifest.json is
\* missing a rejected promise is made (lines 156, 167) and neither returned
\* nor thrown: the call goes on to read the file.
openProjectAt(f, projectPath) ==
    LET manifestPath == Path_join(projectPath, <<ManifestJson>>)
        dropped == IF ~Path_exists(f, manifestPath)
                   THEN {"InvalidProject"} ELSE {}
        read    == rawReadTextFile(f, Path_absolute(manifestPath))
        parsed  == JSONparse(read.text)
    IN  IF ~read.ok
        THEN [ok |-> FALSE, error |-> "IOFailure", dropped |-> dropped]
        ELSE IF ~parsed.ok
        THEN [ok |-> FALSE, error |-> "SyntaxError", dropped |-> dropped]
        ELSE [ok |-> TRUE, error |-> "none", dropped |-> dropped,
              project |-> [path |-> projectPath, manifest |-> parsed.value]]

openProjectStep(projectPath, h) ==
    /\ CallerReady
    /\ Assignable(h)
    /\ LET o == openProjectAt(fs, projectPath)
       IN  IF o.ok
           THEN /\ tasks' = tasks \cup {setCurrentProject(o.project)}
                /\ handles' = [handles EXCEPT ![h] = Live(o.project)]
                /\ result' = Returned("openProject", h, "project")
           ELSE /\ tasks' = tasks
                /\ handles' = handles
                /\ result' = Rejected("openProject", 0, o.error)
                                @@ [dropped |-> o.dropped]
    /\ UNCHANGED <<fs, call, clock, nextId>>

\* openProject(folderName: Path)
openProjectPath(folderName, h) == openProjectStep(folderName, h)

\* openProject(folderName: string)
openProjectName(folderName, h) ==
    openProjectStep(Path_join(getProjectsFolder, <<folderName>>), h)

(***************************************************************************)
(* ProjectManager.addTexture(project), getTexturePath, removeTexture.      *)
(***************************************************************************)
\* textures.push(texture) without the update of modifiedAt.
pushTextureKeepsTime(manifest, texture, now) ==
    [manifest EXCEPT !.textures = Append(@, texture)]

\* textures.unshift(texture): the record goes to the front of the list.
unshiftTexture(manifest, texture, now) ==
    [manifest EXCEPT !.textures = <<texture>> \o @,
                     !.modifiedAt = toISOString(now)]

pushTexture(manifest, texture, now) ==
    [manifest EXCEPT !.textures = Append(@, texture),
                     !.modifiedAt = toISOString(now)]

\* addTexture that stamps and saves the manifest even when the picker was
\* cancelled.
addTextureSavingOnCancel(h, picked, onUndefined) ==
    /\ CallerReady
    /\ handles[h].live
    /\ IF picked.cancelled
       THEN \E now \in Readings(clock) :
              LET project == ProjectOf(handles[h])
                  mutated == [project EXCEPT !.manifest.modifiedAt =
                                toISOString(now)]
              IN  /\ result' = Returned("addTexture", h, Null)
                  /\ clock' = now
                  /\ handles' = [handles EXCEPT ![h] = Live(mutated)]
                  /\ fs' = saveManifest(fs, mutated).fs
                  /\ nextId' = nextId
       ELSE
        /\ nextId <= MaxIds
        /\ nextId' = nextId + 1
        /\ LET project    == ProjectOf(handles[h])
               sourcePath == NewPathOfString(picked.selected)
               textureId  == generateUuid(nextId)
               extension  == Path_extension(sourcePath, onUndefined)
           IN  IF extension.rejects
               THEN /\ result' = Rejected("addTexture", h, "IOFailure")
                    /\ UNCHANGED <<fs, handles, clock>>
               ELSE
                LET destinationFilename ==
                        TextureFilename(textureId, extension.value)
                    destinationPath ==
                        Path_join(project.path, <<Assets, destinationFilename>>)
                    copied == rawCopyFile(fs, Path_absolute(sourcePath),
                                          Path_absolute(destinationPath))
                IN  IF ~copied.ok
                    THEN /\ result' = Rejected("addTexture", h, "IOFailure")
                         /\ UNCHANGED <<fs, handles, clock>>
                    ELSE \E now \in Readings(clock) :
                        LET texture == NewTexture(textureId,
                                                  Path_basename(sourcePath),
                                                  extension.value)
                            mutated == [project EXCEPT !.manifest =
                                          pushTexture(@, texture, now)]
                            w == saveManifest(copied.fs, mutated)
                        IN  /\ clock' = now
                            /\ handles' = [handles EXCEPT ![h] = Live(mutated)]
                            /\ fs' = w.fs
                            /\ result' =
                                 IF w.ok
                                 THEN Returned("addTexture", h, texture)
                                 ELSE Rejected("addTexture", h, "IOFailure")
    /\ UNCHANGED <<tasks, call>>

\* addTexture that pushes the record and saves the manifest before it copies
\* the file.
addTexturePushFirst(h, picked, onUndefined) ==
    /\ CallerReady
    /\ handles[h].live
    /\ IF picked.cancelled
       THEN /\ result' = Returned("addTexture", h, Null)
            /\ UNCHANGED <<fs, handles, clock, nextId>>
       ELSE
        /\ nextId <= MaxIds
        /\ nextId' = nextId + 1
        /\ LET project    == ProjectOf(handles[h])
               sourcePath == NewPathOfString(picked.selected)
               textureId  == generateUuid(nextId)
               extension  == Path_extension(sourcePath, onUndefined)
           IN  IF extension.rejects
               THEN /\ result' = Rejected("addTexture", h, "IOFailure")
                    /\ UNCHANGED <<fs, handles, clock>>
               ELSE
                LET destinationFilename ==
                        TextureFilename(textureId, extension.value)
                    destinationPath ==
                        Path_join(project.path, <<Assets, destinationFilename>>)
                    copied == rawCopyFile(fs, Path_absolute(sourcePath),
                                          Path_absolute(destinationPath))
                IN  IF ~copied.ok
                    THEN \E now \in Readings(clock) :
                        LET texture == NewTexture(textureId,
                                                  Path_basename(sourcePath),
                                                  extension.value)
                            mutated == [project EXCEPT !.manifest =
                                          pushTexture(@, texture, now)]
                        IN  /\ clock' = now
                            /\ handles' = [handles EXCEPT ![h] = Live(mutated)]
                            /\ fs' = saveManifest(fs, mutated).fs
                            /\ result' = Rejected("addTexture", h, "IOFailure")
                    ELSE \E now \in Readings(clock) :
                        LET texture == NewTexture(textureId,
                                                  Path_basename(sourcePath),
                                                  extension.value)
                            mutated == [project EXCEPT !.manifest =
                                          pushTexture(@, texture, now)]
                            w == saveManifest(copied.fs, mutated)
                        IN  /\ clock' = now
                            /\ handles' = [handles EXCEPT ![h] = Live(mutated)]
                            /\ fs' = w.fs
                            /\ result' =
                                 IF w.ok
                                 THEN Returned("addTexture", h, texture)
                                 ELSE Rejected("addTexture", h, "IOFailure")
    /\ UNCHANGED <<tasks, call>>

addTexture(h, picked, onUndefined) ==
    /\ CallerReady
    /\ handles[h].live
    /\ IF picked.cancelled
       THEN /\ result' = Returned("addTexture", h, Null)
            /\ UNCHANGED <<fs, handles, clock, nextId>>
       ELSE
        /\ nextId <= MaxIds
        /\ nextId' = nextId + 1
        /\ LET project    == ProjectOf(handles[h])
               sourcePath == NewPathOfString(picked.selected)
               textureId  == generateUuid(nextId)
               extension  == Path_extension(sourcePath, onUndefined)
           IN  IF extension.rejects
               THEN /\ result' = Rejected("addTexture", h, "IOFailure")
                    /\ UNCHANGED <<fs, handles, clock>>
               ELSE
                LET destinationFilename ==
                        TextureFilename(textureId, extension.value)
                    destinationPath ==
                        Path_join(project.path, <<Assets, destinationFilename>>)
                    copied == rawCopyFile(fs, Path_absolute(sourcePath),
                                          Path_absolute(destinationPath))
                IN  IF ~copied.ok
                    THEN /\ result' = Rejected("addTexture", h, "IOFailure")
                         /\ UNCHANGED <<fs, handles, clock>>
                    ELSE \E now \in Readings(clock) :
                        LET texture == NewTexture(textureId,
                                                  Path_basename(sourcePath),
                                                  extension.value)
                            mutated == [project EXCEPT !.manifest =
                                          pushTexture(@, texture, now)]
                            w == saveManifest(copied.fs, mutated)
                        IN  /\ clock' = now
                            /\ handles' = [handles EXCEPT ![h] = Live(mutated)]
                            /\ fs' = w.fs
                            /\ result' =
                                 IF w.ok
                                 THEN Returned("addTexture", h, texture)
                                 ELSE Rejected("addTexture", h, "IOFailure")
    /\ UNCHANGED <<tasks, call>>

\* getTexturePath(project, texture) for the i-th texture of the manifest.
getTexturePathCall(h, i) ==
    /\ CallerReady
    /\ handles[h].live
    /\ i \in 1..Len(handles[h].manifest.textures)
    /\ result' = Returned("getTexturePath", h,
                    getTexturePath(ProjectOf(handles[h]),
                                   handles[h].manifest.textures[i]))
    /\ UNCHANGED <<fs, handles, tasks, call, clock, nextId>>

\* textures.splice(textureIndex) without a count: every record from the index
\* on is removed.
spliceTextureToEnd(manifest, textureIndex, now) ==
    [manifest EXCEPT !.textures = SubSeq(@, 1, textureIndex),
                     !.modifiedAt = toISOString(now)]

spliceTexture(manifest, textureIndex, now) ==
    [manifest EXCEPT !.textures = splice(@, textureIndex),
                     !.modifiedAt = toISOString(now)]

\* removeTexture as the earlier ProjectManager wrote it: a failed deletion is
\* logged and the record is removed from the manifest all the same.
removeTextureKeepGoing(h, textureId) ==
    /\ CallerReady
    /\ handles[h].live
    /\ LET project      == ProjectOf(handles[h])
           textureIndex == findIndex(project.manifest.textures, textureId)
       IN  IF textureIndex = -1
           THEN /\ result' = Returned("removeTexture", h, FALSE)
                             @@ [why |-> "unknown id", id |-> textureId]
                /\ UNCHANGED <<fs, handles, clock>>
           ELSE
            LET texture     == project.manifest.textures[textureIndex + 1]
                texturePath == getTexturePath(project, texture)
                removed     == Path_remove(fs, texturePath, FALSE, FALSE)
            IN  \E now \in Readings(clock) :
                    LET mutated == [project EXCEPT !.manifest =
                                      spliceTexture(@, textureIndex, now)]
                        w == saveManifest(removed.fs, mutated)
                    IN  /\ clock' = now
                        /\ handles' = [handles EXCEPT ![h] = Live(mutated)]
                        /\ fs' = w.fs
                        /\ result' =
                             IF w.ok
                             THEN Returned("removeTexture", h, TRUE)
                                  @@ [why |-> "removed", id |-> textureId]
                             ELSE Returned("removeTexture", h, FALSE)
                                  @@ [why |-> "IOFailure", id |-> textureId]
    /\ UNCHANGED <<tasks, call, nextId>>

removeTexture(h, textureId) ==
    /\ CallerReady
    /\ handles[h].live
    /\ LET project      == ProjectOf(handles[h])
           textureIndex == findIndex(project.manifest.textures, textureId)
       IN  IF textureIndex = -1
           THEN /\ result' = Returned("removeTexture", h, FALSE)
                             @@ [why |-> "unknown id", id |-> textureId]
                /\ UNCHANGED <<fs, handles, clock>>
           ELSE
            LET texture     == project.manifest.textures[textureIndex + 1]
                texturePath == getTexturePath(project, texture)
                removed     == Path_remove(fs, texturePath, FALSE, FALSE)
            IN  IF ~removed.ok
                THEN /\ result' = Returned("removeTexture", h, FALSE)
                                  @@ [why |-> removed.error, id |-> textureId]
                     /\ UNCHANGED <<fs, handles, clock>>
                ELSE \E now \in Readings(clock) :
                    LET mutated == [project EXCEPT !.manifest =
                                      spliceTexture(@, textureIndex, now)]
                        w == saveManifest(removed.fs, mutated)
                    IN  /\ clock' = now
                        /\ handles' = [handles EXCEPT ![h] = Live(mutated)]
                        /\ fs' = w.fs
                        /\ result' =
                             IF w.ok
                             THEN Returned("removeTexture", h, TRUE)
                                  @@ [why |-> "removed", id |-> textureId]
                             ELSE Rejected("removeTexture", h, "IOFailure")
    /\ UNCHANGED <<tasks, call, nextId>>

(***************************************************************************)
(* ProjectManager.getCurrentProject(): reads and parses current.json.  It  *)
(* starts nothing that is left in flight, and the caller may issue it      *)
(* while the write of setCurrentProject is still on its way.               *)
(***************************************************************************)
getCurrentProjectAt(f) ==
    LET read   == rawReadTextFile(f, Path_absolute(currentInfoPath))
        parsed == JSONparse(read.text)
    IN  IF ~read.ok THEN Rejected("getCurrentProject", 0, "IOFailure")
        ELSE IF ~parsed.ok THEN Rejected("getCurrentProject", 0, "SyntaxError")
        ELSE Returned("getCurrentProject", 0, parsed.value)

getCurrentProject ==
    /\ call = Idle
    /\ result' = getCurrentProjectAt(fs)
    /\ UNCHANGED <<fs, handles, tasks, call, clock, nextId>>

(***************************************************************************)
(* ProjectManager.listProjects(): every directory entry of the projects    *)
(* folder is opened with openProject(entry.name); the first open that      *)
(* fails makes the whole call fail.  readDir gives the entries in an order *)
(* of its own.                                                             *)
(***************************************************************************)
\* readDir(path): the names of the entries of the directory, each with its
\* isDirectory flag.
rawReadDir(f, str) ==
    LET p == resolve(str)
    IN  {[name |-> q[Len(q)], isDirectory |-> f[q].type = "dir"] :
            q \in {r \in DOMAIN f : r # <<>> /\ Parent(r) = p}}

\* The orders in which the elements of S can come.
RECURSIVE Orders(_)
Orders(S) ==
    IF S = {} THEN {<<>>}
    ELSE UNION {{<<x>> \o o : o \in Orders(S \ {x})} : x \in S}

\* A loop that skips the entries it cannot open.
RECURSIVE listProjectsLoopSkipping(_, _)
listProjectsLoopSkipping(f, order) ==
    IF order = <<>>
    THEN [ok |-> TRUE, error |-> "none", projects |-> <<>>]
    ELSE LET o == openProjectAt(f, Path_join(getProjectsFolder, <<Head(order)>>))
         IN  IF ~o.ok
             THEN listProjectsLoopSkipping(f, Tail(order))
             ELSE [listProjectsLoopSkipping(f, Tail(order))
                      EXCEPT !.projects = <<o.project>> \o @]

\* The loop over the directory entries, in the order given: the projects
\* opened, up to the first open that fails.
RECURSIVE listProjectsLoop(_, _)
listProjectsLoop(f, order) ==
    IF order = <<>>
    THEN [ok |-> TRUE, error |-> "none", projects |-> <<>>]
    ELSE LET o == openProjectAt(f, Path_join(getProjectsFolder, <<Head(order)>>))
         IN  IF ~o.ok
             THEN [ok |-> FALSE, error |-> o.error, projects |-> <<>>]
             ELSE [listProjectsLoop(f, Tail(order))
                      EXCEPT !.projects = <<o.project>> \o @]

listProjects ==
    /\ CallerReady
    /\ IF ~Path_exists(fs, getProjectsFolder)
       THEN /\ result' = Returned("listProjects", 0, <<>>)
            /\ tasks' = tasks
       ELSE
        LET entries == rawReadDir(fs, Path_absolute(getProjectsFolder))
            directories == {e.name : e \in {d \in entries : d.isDirectory}}
        IN  \E order \in Orders(directories) :
            \E loop \in {listProjectsLoop(fs, order)} :
                  /\ tasks' = tasks \cup
                        {setCurrentProject(loop.projects[i]) :
                            i \in 1..Len(loop.projects)}
                  /\ result' =
                       IF loop.ok
                       THEN Returned("listProjects", 0, loop.projects)
                       ELSE Rejected("listProjects", 0, loop.error)
    /\ UNCHANGED <<fs, handles, call, clock, nextId>>

(***************************************************************************)
(* ProjectManager.importProject(): the user picks a directory; a directory *)
(* with a manifest.json is copied to Projects/<sanitize(manifest.name)>    *)
(* and the Path of the picked directory is returned.                       *)
(***************************************************************************)
\* copy_directory(source, destination): the tree below source is copied to
\* destination, which is created with the folders above it; files already
\* there are overwritten.
rawCopyDir(f, fromPath, toPath) ==
    LET s == resolve(fromPath)
        d == resolve(toPath)
        above  == {SubSeq(d, 1, n) : n \in 1..Len(d)}
        copied == {q \in DOMAIN f : IsPrefix(s, q) /\ q # s}
        Target(q) == d \o SubSeq(q, Len(s) + 1, Len(q))
        targets == {Target(q) : q \in copied}
    IN  IF ~IsDir(f, s) \/ (\E q \in above : IsFile(f, q))
        THEN [ok |-> FALSE, fs |-> f]
        ELSE [ok |-> TRUE,
              fs |-> [q \in DOMAIN f \cup above \cup targets |->
                        IF q \in targets
                        THEN f[CHOOSE r \in copied : Target(r) = q]
                        ELSE IF q \in DOMAIN f THEN f[q] ELSE DirNode]]

PickedX == <<"/", "x">>
PickedNoProject == <<"/", "t">>
PickableDirectories == {PickedX, PickedNoProject}
DirectoryPickerResults ==
    {Cancelled} \cup {Selected(str) : str \in PickableDirectories}

\* importProject that returns the Path of the copy.
importProjectReturningCopy(picked) ==
    /\ CallerReady
    /\ IF picked.cancelled
       THEN /\ result' = Rejected("importProject", 0, "Cancelled")
            /\ fs' = fs
       ELSE
        LET selected     == picked.selected
            projectPath  == NewPathOfString(selected)
            manifestPath == Path_join(projectPath, <<ManifestJson>>)
            read   == rawReadTextFile(fs, Path_absolute(manifestPath))
            parsed == JSONparse(read.text)
        IN  IF ~Path_exists(fs, manifestPath)
            THEN /\ result' = Rejected("importProject", 0, "InvalidProject")
                 /\ fs' = fs
            ELSE IF ~read.ok
            THEN /\ result' = Rejected("importProject", 0, "IOFailure")
                 /\ fs' = fs
            ELSE IF ~parsed.ok
            THEN /\ result' = Rejected("importProject", 0, "SyntaxError")
                 /\ fs' = fs
            ELSE
             LET pathTo == Path_join(getProjectsFolder,
                                     <<sanitize(parsed.value.name)>>)
                 copy   == rawCopyDir(fs, selected, Path_absolute(pathTo))
             IN  /\ fs' = copy.fs
                 /\ result' =
                      IF copy.ok
                      THEN Returned("importProject", 0, pathTo)
                           @@ [selected |-> selected]
                      ELSE Rejected("importProject", 0, "IOFailure")
    /\ UNCHANGED <<handles, tasks, call, clock, nextId>>

\* importProject whose rejection for the missing manifest.json is not
\* returned, as in openProject: the read that follows fails instead.
importProjectDroppedReject(picked) ==
    /\ CallerReady
    /\ IF picked.cancelled
       THEN /\ result' = Rejected("importProject", 0, "Cancelled")
            /\ fs' = fs
       ELSE
        LET selected     == picked.selected
            projectPath  == NewPathOfString(selected)
            manifestPath == Path_join(projectPath, <<ManifestJson>>)
            read   == rawReadTextFile(fs, Path_absolute(manifestPath))
            parsed == JSONparse(read.text)
        IN  IF ~read.ok
            THEN /\ result' = Rejected("importProject", 0, "IOFailure")
                 /\ fs' = fs
            ELSE IF ~parsed.ok
            THEN /\ result' = Rejected("importProject", 0, "SyntaxError")
                 /\ fs' = fs
            ELSE
             LET pathTo == Path_join(getProjectsFolder,
                                     <<sanitize(parsed.value.name)>>)
                 copy   == rawCopyDir(fs, selected, Path_absolute(pathTo))
             IN  /\ fs' = copy.fs
                 /\ result' =
                      IF copy.ok
                      THEN Returned("importProject", 0, projectPath)
                           @@ [selected |-> selected]
                      ELSE Rejected("importProject", 0, "IOFailure")
    /\ UNCHANGED <<handles, tasks, call, clock, nextId>>

importProject(picked) ==
    /\ CallerReady
    /\ IF picked.cancelled
       THEN /\ result' = Rejected("importProject", 0, "Cancelled")
            /\ fs' = fs
       ELSE
        LET selected     == picked.selected
            projectPath  == NewPathOfString(selected)
            manifestPath == Path_join(projectPath, <<ManifestJson>>)
            read   == rawReadTextFile(fs, Path_absolute(manifestPath))
            parsed == JSONparse(read.text)
        IN  IF ~Path_exists(fs, manifestPath)
            THEN /\ result' = Rejected("importProject", 0, "InvalidProject")
                 /\ fs' = fs
            ELSE IF ~read.ok
            THEN /\ result' = Rejected("importProject", 0, "IOFailure")
                 /\ fs' = fs
            ELSE IF ~parsed.ok
            THEN /\ result' = Rejected("importProject", 0, "SyntaxError")
                 /\ fs' = fs
            ELSE
             LET pathTo == Path_join(getProjectsFolder,
                                     <<sanitize(parsed.value.name)>>)
                 copy   == rawCopyDir(fs, selected, Path_absolute(pathTo))
             IN  /\ fs' = copy.fs
                 /\ result' =
                      IF copy.ok
                      THEN Returned("importProject", 0, projectPath)
                           @@ [selected |-> selected]
                      ELSE Rejected("importProject", 0, "IOFailure")
    /\ UNCHANGED <<handles, tasks, call, clock, nextId>>

TextureIds == {generateUuid(n) : n \in 1..MaxIds}

Next ==
    \/ \E name \in Names : createProjectStart(name)
    \/ \E h \in Handles : createProjectReturn(h)
    \/ \E folderName \in OpenablePaths, h \in Handles :
            openProjectPath(folderName, h)
    \/ \E folderName \in FolderNames, h \in Handles :
            openProjectName(folderName, h)
    \/ \E h \in Handles, picked \in PickerResults,
          onUndefined \in ExtnameOnUndefined :
            addTexture(h, picked, onUndefined)
    \/ \E h \in Handles, i \in 1..MaxIds : getTexturePathCall(h, i)
    \/ \E h \in Handles, textureId \in TextureIds : removeTexture(h, textureId)
    \/ \E t \in tasks : TaskCheck(t)
    \/ \E t \in tasks : TaskAct(t)

Spec == Init /\ [][Next]_vars

(***************************************************************************)
(* The same operations in an environment where the manifest.json of the    *)
(* project folder x cannot be written: saveManifest on that project fails. *)
(***************************************************************************)
InitReadOnly ==
    /\ fs = [InitialFs EXCEPT ![<< <<"x">>, ManifestJson >>] =
                                 ReadOnlyFileNode(@.content)]
    /\ handles = [h \in Handles |-> NoHandle]
    /\ tasks = {}
    /\ call = Idle
    /\ clock = 0
    /\ nextId = 1
    /\ result = [op |-> "none"]

SpecReadOnly == InitReadOnly /\ [][Next]_vars

(***************************************************************************)
(* sanitize on its own: the name is any string of at most MaxNameLen       *)
(* characters over NameChars, or "Test Rack!"; the call is in call, what   *)
(* it returns in result.                                                   *)
(***************************************************************************)
MaxNameLen == 3

NameChars == {"a", "Z", "0", "-", "_", " ", "!", "."}

TestRack == <<"T", "e", "s", "t", " ", "R", "a", "c", "k", "!">>

SanitizeInputs ==
    UNION {[1..n -> NameChars] : n \in 0..MaxNameLen} \cup {TestRack}

SanitizeInit ==
    /\ fs = InitialFs
    /\ handles = [h \in Handles |-> NoHandle]
    /\ tasks = {}
    /\ clock = 0
    /\ nextId = 1
    /\ result = [op |-> "none"]
    /\ \E str \in SanitizeInputs : call = [op |-> "sanitize", str |-> str]

sanitizeCall ==
    /\ call.op = "sanitize"
    /\ result.op = "none"
    /\ result' = Returned("sanitize", 0, sanitize(call.str))
    /\ UNCHANGED <<fs, handles, tasks, call, clock, nextId>>

SpecSanitize == SanitizeInit /\ [][sanitizeCall]_vars

(***************************************************************************)
(* Every operation of ProjectManager, for a caller that keeps one Project  *)
(* object at a time and creates projects under one name.                  *)
(***************************************************************************)
OneHandle == {1}
OneName == {<<"b">>}

NextLibrary ==
    \/ \E name \in OneName : createProjectStart(name)
    \/ \E h \in OneHandle : createProjectReturn(h)
    \/ \E folderName \in OpenablePaths, h \in OneHandle :
            openProjectPath(folderName, h)
    \/ \E folderName \in FolderNames, h \in OneHandle :
            openProjectName(folderName, h)
    \/ \E h \in OneHandle, picked \in PickerResults,
          onUndefined \in ExtnameOnUndefined :
            addTexture(h, picked, onUndefined)
    \/ \E h \in OneHandle, i \in 1..MaxIds : getTexturePathCall(h, i)
    \/ \E h \in OneHandle, textureId \in TextureIds : removeTexture(h, textureId)
    \/ getCurrentProject
    \/ listProjects
    \/ \E picked \in DirectoryPickerResults : importProject(picked)
    \/ \E t \in tasks : TaskCheck(t)
    \/ \E t \in tasks : TaskAct(t)

SpecLibrary == Init /\ [][NextLibrary]_vars

(***************************************************************************)
(* class Path on its own: one Path object, built by the constructor from   *)
(* a list of parts, with or without a base (a Path or a string), and the   *)
(* calls of its methods on the file system of the environment.             *)
(***************************************************************************)
PathParts ==
    { << <<"x">> >>, << <<"x">>, ManifestJson >>, << ManifestJson >>,
      << Assets >>, << <<"n">> >>, << <<"t">>, <<"n">> >> }
PathBases == {NewPath(<< <<"x">> >>), NewPath(<< <<"t">>, <<"p">> >>)}
PathBaseStrings == {<<"x">>, <<"t", "/", "p">>}
PathObjects ==
    {NewPath(parts) : parts \in PathParts}
    \cup {NewPathWithBase(parts, base) : parts \in PathParts, base \in PathBases}
    \cup {NewPathWithBaseString(parts, base) :
              parts \in PathParts, base \in PathBaseStrings}
JoinedParts == { << <<"n">> >>, << Assets, <<"f">> >> }

PathInit ==
    /\ fs = InitialFs
    /\ handles = [h \in Handles |-> NoHandle]
    /\ tasks = {}
    /\ call \in {[op |-> "Path", this |-> this] : this \in PathObjects}
    /\ clock = 0
    /\ nextId = 1
    /\ result = [op |-> "none"]

PathOutcome(op, r) == [op |-> op, ok |-> r.ok, error |-> r.error]

Path_joinCall(strPathParts) ==
    /\ call.op = "Path"
    /\ result' = [op |-> "join", ok |-> TRUE, error |-> "none",
                  strPathParts |-> strPathParts,
                  value |-> Path_join(call.this, strPathParts)]
    /\ UNCHANGED <<fs, handles, tasks, call, clock, nextId>>

Path_touchCall(existOk) ==
    /\ call.op = "Path"
    /\ LET r == Path_touch(fs, call.this, existOk)
       IN  /\ fs' = r.fs
           /\ result' = PathOutcome("touch", r)
    /\ UNCHANGED <<handles, tasks, call, clock, nextId>>

Path_mkdirCall(existOk, recursive) ==
    /\ call.op = "Path"
    /\ LET r == Path_mkdir(fs, call.this, existOk, recursive)
       IN  /\ fs' = r.fs
           /\ result' = PathOutcome("mkdir", r)
    /\ UNCHANGED <<handles, tasks, call, clock, nextId>>

Path_removeCall(missingOk, recursive) ==
    /\ call.op = "Path"
    /\ LET r == Path_remove(fs, call.this, missingOk, recursive)
       IN  /\ fs' = r.fs
           /\ result' = PathOutcome("remove", r)
    /\ UNCHANGED <<handles, tasks, call, clock, nextId>>

Path_isDirCall ==
    /\ call.op = "Path"
    /\ result' = [op |-> "isDir"] @@ Path_isDir(fs, call.this)
    /\ UNCHANGED <<fs, handles, tasks, call, clock, nextId>>

Path_isFileCall ==
    /\ call.op = "Path"
    /\ result' = [op |-> "isFile"] @@ Path_isFile(fs, call.this)
    /\ UNCHANGED <<fs, handles, tasks, call, clock, nextId>>

NextPath ==
    \/ \E strPathParts \in JoinedParts : Path_joinCall(strPathParts)
    \/ \E existOk \in BOOLEAN : Path_touchCall(existOk)
    \/ \E existOk \in BOOLEAN, recursive \in BOOLEAN :
          Path_mkdirCall(existOk, recursive)
    \/ \E missingOk \in BOOLEAN, recursive \in BOOLEAN :
          Path_removeCall(missingOk, recursive)
    \/ Path_isDirCall
    \/ Path_isFileCall

SpecPath == PathInit /\ [][NextPath]_vars

(***************************************************************************)
(* Helpers of the properties.                                              *)
(***************************************************************************)
Location(path) == resolve(Path_absolute(path))

ManifestLocation(project) == Location(Path_join(project.path, <<ManifestJson>>))
AssetsLocation(project) == Location(Path_join(project.path, <<Assets>>))

\* The manifest manifest.json of the project holds, when it holds one.
HoldsManifest(f, project, manifest) ==
    /\ IsFile(f, ManifestLocation(project))
    /\ f[ManifestLocation(project)].content = JSONstringify(manifest)

TextureLocation(project, texture) == Location(getTexturePath(project, texture))

IdsOf(textures) == {textures[i].id : i \in 1..Len(textures)}

LiveHandles == {h \in Handles : handles[h].live}

(***************************************************************************)
(* C1.  When createProject(name) returns a project, the project folder     *)
(* Projects/<sanitize(name)> exists, an assets folder exists inside it and *)
(* manifest.json inside it holds the returned manifest.                    *)
(* The code makes Projects/assets, never <project>/assets.                 *)
(***************************************************************************)
C1_CreatedLayout ==
    (result.op = "createProject" /\ result.ok) =>
        LET project == ProjectOf(handles[result.h])
        IN  /\ project.path =
                 Path_join(getProjectsFolder, <<sanitize(project.manifest.name)>>)
            /\ IsDir(fs, Location(project.path))
            /\ IsDir(fs, AssetsLocation(project))
            /\ HoldsManifest(fs, project, project.manifest)

(***************************************************************************)
(* C2.  createProject on a name whose folder already exists fails with     *)
(* AlreadyExists and overwrites nothing.  A manifest.json found in the     *)
(* project folder when saveManifest is reached was there when the call     *)
(* began: the folder existed.                                              *)
(***************************************************************************)
C2_ExistingFolderRejected ==
    [][\A h \in Handles :
          (createProjectReturn(h) /\ IsFile(fs, ManifestLocation(call.project)))
          => /\ ~result'.ok
             /\ result'.error = "AlreadyExists"
             /\ fs' = fs]_vars

(***************************************************************************)
(* C3.  The manifest createProject returns has version "1.0", the name as  *)
(* given (not sanitized), no textures, rackSize 42 and createdAt equal to  *)
(* modifiedAt.  The code reads the clock once for each timestamp.          *)
(***************************************************************************)
C3_InitialManifest ==
    (result.op = "createProject" /\ result.ok) =>
        LET manifest == handles[result.h].manifest
        IN  /\ manifest.version = "1.0"
            /\ manifest.name \in Names
            /\ manifest.textures = <<>>
            /\ manifest.rackSize = 42
            /\ manifest.createdAt = manifest.modifiedAt

(***************************************************************************)
(* C4.  An addTexture that returns a texture has appended exactly that one *)
(* record at the end of the manifest's texture list, and getTexturePath of *)
(* the project and the texture names a file that exists; getTexturePath    *)
(* changes neither the file system nor any manifest.                       *)
(***************************************************************************)
C4_AddedTextureOnDisk ==
    [][/\ \A h \in Handles, picked \in PickerResults,
             onUndefined \in ExtnameOnUndefined :
            ( /\ result'.op = "addTexture"
              /\ addTexture(h, picked, onUndefined)
              /\ ~picked.cancelled
              /\ result'.ok )
            => /\ handles'[h].manifest.textures =
                    Append(handles[h].manifest.textures, result'.value)
               /\ handles'[h].path = handles[h].path
               /\ IsFile(fs', TextureLocation(ProjectOf(handles'[h]),
                                              result'.value))
       /\ \A h \in Handles, i \in 1..MaxIds :
            (result'.op = "getTexturePath" /\ getTexturePathCall(h, i))
            => (fs' = fs /\ handles' = handles)
      ]_vars

\* An addTexture has just returned a texture.
C4_Witness ==
    /\ result.op = "addTexture"
    /\ result.ok
    /\ result.value # Null
    /\ Len(handles[result.h].manifest.textures) >= 1

(***************************************************************************)
(* C5.  removeTexture with the id addTexture has just returned, on the     *)
(* same project, returns true, leaves the texture list as it was before    *)
(* the add, and leaves no file texture_<id><extension> in assets.          *)
(***************************************************************************)
C5_AddThenRemove ==
    [][\A h \in Handles :
         ( /\ result.op = "addTexture"
           /\ result.ok
           /\ result.value # Null
           /\ result.h = h
           /\ result'.op = "removeTexture"
           /\ removeTexture(h, result.value.id) )
         => /\ result'.ok
            /\ result'.value = TRUE
            /\ Append(handles'[h].manifest.textures, result.value)
                  = handles[h].manifest.textures
            /\ ~Exists(fs', TextureLocation(ProjectOf(handles[h]), result.value))
      ]_vars

\* removeTexture has removed the texture that was the last one added.
C5_Witness ==
    /\ result.op = "removeTexture"
    /\ result.ok
    /\ result.value = TRUE
    /\ result.id = generateUuid(nextId - 1)
    /\ handles[result.h].manifest.textures # <<>>

(***************************************************************************)
(* C6.  removeTexture with an id that is not in the texture list returns   *)
(* false and changes nothing: not the manifest in memory, not              *)
(* manifest.json, not a file under assets.                                 *)
(***************************************************************************)
C6_UnknownIdNoChange ==
    [][\A h \in Handles, textureId \in TextureIds :
         ( /\ result'.op = "removeTexture"
           /\ removeTexture(h, textureId)
           /\ textureId \notin IdsOf(handles[h].manifest.textures) )
         => /\ result'.ok
            /\ result'.value = FALSE
            /\ handles' = handles
            /\ fs' = fs
      ]_vars

\* removeTexture was called with an unknown id on a list that is not empty.
C6_Witness ==
    /\ result.op = "removeTexture"
    /\ result.ok
    /\ result.why = "unknown id"
    /\ handles[result.h].manifest.textures # <<>>

(***************************************************************************)
(* C7.  When the removal of the asset file fails (the file is absent),     *)
(* removeTexture returns false, does not throw, and changes neither the    *)
(* manifest in memory nor manifest.json.                                   *)
(***************************************************************************)
DeletionFails(f, project, textureId) ==
    /\ textureId \in IdsOf(project.manifest.textures)
    /\ LET texture == project.manifest.textures[
                          findIndex(project.manifest.textures, textureId) + 1]
       IN  ~Path_remove(f, getTexturePath(project, texture), FALSE, FALSE).ok

C7_FailedDeletionNoChange ==
    [][\A h \in Handles, textureId \in TextureIds :
         ( /\ result'.op = "removeTexture"
           /\ removeTexture(h, textureId)
           /\ DeletionFails(fs, ProjectOf(handles[h]), textureId) )
         => /\ result'.ok
            /\ result'.value = FALSE
            /\ handles' = handles
            /\ fs' = fs
      ]_vars

\* removeTexture found the record and not the file.
C7_Witness ==
    /\ result.op = "removeTexture"
    /\ result.ok
    /\ result.value = FALSE
    /\ result.why = "NotFound"
    /\ result.id \in IdsOf(handles[result.h].manifest.textures)

(***************************************************************************)
(* C8.  After completed calls of one caller, the texture records of the    *)
(* project's manifest are exactly the texture_<id><extension> files in the *)
(* project's assets folder: no record without a file, no file without a    *)
(* record.                                                                 *)
(* Two Project objects of the same project each carry their own copy of    *)
(* the manifest, and every save overwrites manifest.json with the copy of  *)
(* the object used: the record the other object added is lost, its file    *)
(* stays.                                                                  *)
(***************************************************************************)
RecordFiles(textures) ==
    {TextureFilename(textures[i].id, textures[i].extension) :
        i \in 1..Len(textures)}

AssetFiles(f, project) ==
    {p[Len(p)] : p \in {q \in DOMAIN f :
                              /\ q # <<>>
                              /\ Parent(q) = AssetsLocation(project)
                              /\ f[q].type = "file"}}

C8_RecordsMatchFiles ==
    \A h \in LiveHandles :
        LET project   == ProjectOf(handles[h])
            persisted == JSONparse(fs[ManifestLocation(project)].content)
        IN  ( /\ call = Idle
              /\ tasks = {}
              /\ IsFile(fs, ManifestLocation(project))
              /\ persisted.ok )
            => RecordFiles(persisted.value.textures) = AssetFiles(fs, project)

(***************************************************************************)
(* C9.  No two records of a project's texture list have the same id, and   *)
(* no two of them name the same asset file; generateUuid never returns an  *)
(* identifier twice.                                                       *)
(***************************************************************************)
Distinct(textures) ==
    \A i, j \in 1..Len(textures) :
        i # j => /\ textures[i].id # textures[j].id
                 /\ TextureFilename(textures[i].id, textures[i].extension)
                      # TextureFilename(textures[j].id, textures[j].extension)

C9_UniqueIds ==
    /\ \A h \in LiveHandles : Distinct(handles[h].manifest.textures)
    /\ \A p \in DOMAIN fs :
         (fs[p].type = "file" /\ fs[p].content.kind = "json"
            /\ p[Len(p)] = ManifestJson)
         => Distinct(fs[p].content.value.textures)

\* A project holds two texture records.
C9_Witness ==
    \E h \in LiveHandles : Len(handles[h].manifest.textures) = 2

(***************************************************************************)
(* C10.  openProject on a location without manifest.json fails with        *)
(* InvalidProject, returns no Project and leaves current.json as it was.   *)
(* The rejected promise the code makes for InvalidProject is neither       *)
(* returned nor thrown; the caller gets the failure of the read that       *)
(* follows.                                                                *)
(***************************************************************************)
OpenedPaths ==
    OpenablePaths \cup
        {Path_join(getProjectsFolder, <<folderName>>) : folderName \in FolderNames}

C10_MissingManifestInvalidProject ==
    [][\A projectPath \in OpenedPaths, h \in Handles :
         ( /\ result'.op = "openProject"
           /\ openProjectStep(projectPath, h)
           /\ ~Path_exists(fs, Path_join(projectPath, <<ManifestJson>>)) )
         => /\ ~result'.ok
            /\ result'.error = "InvalidProject"
            /\ handles' = handles
            /\ tasks' = tasks
            /\ fs' = fs
      ]_vars

(***************************************************************************)
(* C11.  openProject on a valid project folder returns the manifest last   *)
(* persisted for it, and a getCurrentProject issued right after openProject *)
(* has returned yields that same project (path and manifest).              *)
(* openProject does not await setCurrentProject, which does not await its  *)
(* write: getCurrentProject can read current.json before it is written.    *)
(***************************************************************************)
C11_OpenThenCurrent ==
    [][/\ \A projectPath \in OpenedPaths, h \in Handles :
            ( /\ result'.op = "openProject"
              /\ openProjectStep(projectPath, h)
              /\ result'.ok )
            => HoldsManifest(fs, ProjectOf(handles'[h]), handles'[h].manifest)
       /\ ( /\ result.op = "openProject"
            /\ result.ok
            /\ result'.op = "getCurrentProject"
            /\ getCurrentProject )
          => /\ result'.ok
             /\ result'.value = ProjectOf(handles[result.h])
      ]_vars

(***************************************************************************)
(* C12.  listProjects returns an empty list when the projects folder is    *)
(* absent or empty; when the projects folder holds the folders of created  *)
(* projects it returns exactly these projects, one for each, with the      *)
(* names they were created with.                                           *)
(* createProject also makes Projects/assets (see C1), a directory without  *)
(* manifest.json, and listProjects fails on it.                            *)
(***************************************************************************)
CreatedFolders ==
    {d \in FolderNames :
        IsFile(fs, Location(Path_join(getProjectsFolder, <<d, ManifestJson>>)))}

CreatedNames ==
    {JSONparse(fs[Location(Path_join(getProjectsFolder,
                                     <<d, ManifestJson>>))].content).value.name :
        d \in CreatedFolders}

NoOtherFolders ==
    \A e \in rawReadDir(fs, Path_absolute(getProjectsFolder)) :
        (e.isDirectory /\ e.name # Assets) => e.name \in CreatedFolders

C12_ListedProjects ==
    [][( /\ result'.op = "listProjects"
         /\ listProjects )
       => /\ rawReadDir(fs, Path_absolute(getProjectsFolder)) = {}
             => (result'.ok /\ result'.value = <<>>)
          /\ (CreatedFolders # {} /\ NoOtherFolders)
             => /\ result'.ok
                /\ Len(result'.value) = Cardinality(CreatedFolders)
                /\ {result'.value[i].manifest.name :
                        i \in 1..Len(result'.value)} = CreatedNames
      ]_vars

(***************************************************************************)
(* C13.  In every reachable state modifiedAt >= createdAt in every         *)
(* manifest, in memory and persisted; a successful addTexture or           *)
(* removeTexture sets modifiedAt to the time of the mutation, which is not *)
(* earlier than the modifiedAt before it.                                  *)
(***************************************************************************)
TimeOf(timestamp) == timestamp.iso

InOrder(manifest) == TimeOf(manifest.createdAt) <= TimeOf(manifest.modifiedAt)

PersistedManifests ==
    {fs[p].content.value :
        p \in {q \in DOMAIN fs : /\ fs[q].type = "file"
                                 /\ fs[q].content.kind = "json"
                                 /\ q[Len(q)] = ManifestJson}}

Mutates(h) ==
    \/ /\ result'.op = "addTexture"
       /\ \E picked \in PickerResults, onUndefined \in ExtnameOnUndefined :
            addTexture(h, picked, onUndefined) /\ ~picked.cancelled
       /\ result'.ok
    \/ /\ result'.op = "removeTexture"
       /\ \E textureId \in TextureIds : removeTexture(h, textureId)
       /\ result'.ok
       /\ result'.value = TRUE

C13_ModifiedAtFollowsTime ==
    /\ [](/\ \A h \in LiveHandles : InOrder(handles[h].manifest)
          /\ \A manifest \in PersistedManifests : InOrder(manifest))
    /\ [][\A h \in Handles :
            Mutates(h) =>
               /\ handles'[h].manifest.modifiedAt = toISOString(clock')
               /\ clock' >= clock
               /\ TimeOf(handles'[h].manifest.modifiedAt)
                     >= TimeOf(handles[h].manifest.modifiedAt)
               /\ handles'[h].manifest.createdAt = handles[h].manifest.createdAt
         ]_vars

\* A texture was added at a time later than the project's creation.
C13_Witness ==
    /\ result.op = "addTexture"
    /\ result.ok
    /\ result.value # Null
    /\ TimeOf(handles[result.h].manifest.modifiedAt)
          > TimeOf(handles[result.h].manifest.createdAt)

(***************************************************************************)
(* C14.  sanitize replaces every character outside [A-Za-z0-9-_] by "_"    *)
(* and keeps every other character: the result is as long as the input,    *)
(* has only allowed characters, sanitizing it again changes nothing, and   *)
(* "Test Rack!" gives "Test_Rack_".                                        *)
(***************************************************************************)
Test_Rack_ == <<"T", "e", "s", "t", "_", "R", "a", "c", "k", "_">>

C14_Sanitized ==
    result.op = "sanitize" =>
        LET str == call.str
            out == result.value
        IN  /\ Len(out) = Len(str)
            /\ \A i \in 1..Len(str) :
                 out[i] = IF str[i] \in Lower \cup Upper \cup Digits \cup {"-", "_"}
                          THEN str[i] ELSE "_"
            /\ \A i \in 1..Len(out) :
                 out[i] \in Lower \cup Upper \cup Digits \cup {"-", "_"}
            /\ sanitize(out) = out
            /\ str = TestRack => out = Test_Rack_

\* A name with a character that is replaced and one that is kept.
C14_Witness ==
    /\ result.op = "sanitize"
    /\ \E i, j \in 1..Len(call.str) :
         /\ result.value[i] # call.str[i]
         /\ result.value[j] = call.str[j]
    /\ \E i \in 1..Len(call.str) : call.str[i] = "."

(***************************************************************************)
(* C15.  When the picker is cancelled addTexture returns null, raises no   *)
(* error and changes nothing: no file is copied, texture list and          *)
(* modifiedAt stay, manifest.json is not rewritten.                        *)
(***************************************************************************)
C15_CancelChangesNothing ==
    [][\A h \in Handles, onUndefined \in ExtnameOnUndefined :
         ( /\ result'.op = "addTexture"
           /\ addTexture(h, Cancelled, onUndefined) )
         => /\ result'.ok
            /\ result'.value = Null
            /\ handles' = handles
            /\ fs' = fs
      ]_vars

\* addTexture was cancelled on a project that has a texture.
C15_Witness ==
    /\ result.op = "addTexture"
    /\ result.ok
    /\ result.value = Null
    /\ handles[result.h].manifest.textures # <<>>

(***************************************************************************)
(* C16.  addTexture and removeTexture change and persist the manifest only *)
(* after the copy, or the deletion, of the file has succeeded.  When the   *)
(* copy in addTexture fails the caller gets the error, and texture list,   *)
(* modifiedAt and manifest.json are as before.                             *)
(***************************************************************************)
\* The copy addTexture makes for the picked file, when it comes to it.
CopyOf(h, picked, onUndefined) ==
    LET project    == ProjectOf(handles[h])
        sourcePath == NewPathOfString(picked.selected)
        extension  == Path_extension(sourcePath, onUndefined)
        destinationPath ==
            Path_join(project.path,
                      <<Assets, TextureFilename(generateUuid(nextId),
                                                extension.value)>>)
    IN  [reached |-> ~extension.rejects,
         to |-> Location(destinationPath),
         ok |-> rawCopyFile(fs, Path_absolute(sourcePath),
                            Path_absolute(destinationPath)).ok]

ManifestFile(f, h) ==
    IF IsFile(f, ManifestLocation(ProjectOf(handles[h])))
    THEN f[ManifestLocation(ProjectOf(handles[h]))]
    ELSE DirNode

C16_ManifestAfterFile ==
    [][/\ \A h \in Handles, picked \in PickerResults \ {Cancelled},
             onUndefined \in ExtnameOnUndefined :
            ( /\ result'.op = "addTexture"
              /\ addTexture(h, picked, onUndefined) )
            => LET copy == CopyOf(h, picked, onUndefined)
               IN  /\ (copy.reached /\ ~copy.ok)
                        => /\ ~result'.ok
                           /\ handles' = handles
                           /\ fs' = fs
                   /\ (handles' # handles \/ ManifestFile(fs', h) # ManifestFile(fs, h))
                        => /\ copy.reached /\ copy.ok
                           /\ IsFile(fs', copy.to)
       /\ \A h \in Handles, textureId \in TextureIds :
            ( /\ result'.op = "removeTexture"
              /\ removeTexture(h, textureId) )
            => /\ DeletionFails(fs, ProjectOf(handles[h]), textureId)
                    => (handles' = handles /\ fs' = fs)
               /\ (handles' # handles \/ ManifestFile(fs', h) # ManifestFile(fs, h))
                    => /\ textureId \in IdsOf(handles[h].manifest.textures)
                       /\ ~DeletionFails(fs, ProjectOf(handles[h]), textureId)
      ]_vars

\* addTexture was rejected on a project whose assets folder is missing, where
\* no copy can succeed.
C16_Witness ==
    /\ result.op = "addTexture"
    /\ ~result.ok
    /\ handles[result.h].live
    /\ ~IsDir(fs, AssetsLocation(ProjectOf(handles[result.h])))

(***************************************************************************)
(* C17.  Two Project objects loaded from the same manifest.json each carry *)
(* their own copy of the manifest.  When both are used for addTexture or   *)
(* removeTexture, manifest.json is, after each call, the copy of the       *)
(* object that call was made with: what the other object had changed is    *)
(* not in it.                                                              *)
(***************************************************************************)
C17_LastWriterWins ==
    [][\A h \in Handles :
         Mutates(h) =>
            /\ HoldsManifest(fs', ProjectOf(handles'[h]), handles'[h].manifest)
            /\ \A g \in Handles \ {h} :
                 (handles[g].live /\ handles[g].path = handles[h].path)
                 => \A i \in 1..Len(handles[g].manifest.textures) :
                      LET texture == handles[g].manifest.textures[i]
                      IN  texture.id \notin IdsOf(handles'[h].manifest.textures)
                          => texture.id \notin
                               IdsOf(JSONparse(ManifestFile(fs', h).content)
                                        .value.textures)
      ]_vars

\* Two objects of one project have each added a texture; manifest.json is
\* the copy of the one that wrote last and lacks the texture of the other,
\* whose file is in assets.
C17_Witness ==
    /\ result.op = "addTexture"
    /\ result.ok
    /\ result.value # Null
    /\ \E g \in LiveHandles \ {result.h} :
         /\ handles[g].path = handles[result.h].path
         /\ HoldsManifest(fs, ProjectOf(handles[result.h]),
                          handles[result.h].manifest)
         /\ \E i \in 1..Len(handles[g].manifest.textures) :
              LET texture == handles[g].manifest.textures[i]
              IN  /\ texture.id \notin IdsOf(handles[result.h].manifest.textures)
                  /\ IsFile(fs, TextureLocation(ProjectOf(handles[g]), texture))

(***************************************************************************)
(* C18.  current.json is written only by a successful openProject:         *)
(* getCurrentProject fails as long as there is no current.json, there is   *)
(* none to begin with, and no step of createProject, addTexture,           *)
(* removeTexture or importProject creates or changes it.  The only step    *)
(* that does is the write setCurrentProject has started, and only an       *)
(* openProject that has read the project's manifest.json starts it.        *)
(***************************************************************************)
CurrentLocation == Location(currentInfoPath)

CurrentFile(f) ==
    IF Exists(f, CurrentLocation) THEN f[CurrentLocation] ELSE DirNode

PointerWrites(pending) ==
    {t \in pending : t.kind = "write" /\ t.path = currentInfoPath}

C18_PointerOnlyByOpen ==
    /\ ~Exists(fs, CurrentLocation)
    /\ [][/\ CurrentFile(fs') # CurrentFile(fs)
             => \E t \in PointerWrites(tasks) : TaskAct(t)
          /\ \A t \in PointerWrites(tasks') \ PointerWrites(tasks) :
                /\ result'.op \in {"openProject", "listProjects"}
                /\ \E project \in {t.text.value} :
                     LET o == openProjectAt(fs, project.path)
                     IN  o.ok /\ o.project = project
          /\ ( /\ result'.op = "getCurrentProject"
               /\ getCurrentProject
               /\ ~Exists(fs, CurrentLocation) )
             => ~result'.ok
         ]_vars

\* A project was created, a project was imported, and getCurrentProject has
\* failed because no openProject has written current.json.
C18_Witness ==
    /\ result.op = "getCurrentProject"
    /\ ~result.ok
    /\ ~Exists(fs, CurrentLocation)
    /\ CreatedFolders # {}
    /\ \E q \in DOMAIN fs :
         /\ IsPrefix(Location(getProjectsFolder), q)
         /\ q[Len(q)] = ManifestJson
         /\ Len(q) = Len(Location(getProjectsFolder)) + 2
         /\ q[Len(q) - 1] \notin FolderNames

(***************************************************************************)
(* C19.  A successful importProject has copied the whole tree of the       *)
(* picked directory to Projects/<sanitize(manifest.name)> and returns the  *)
(* Path of the picked directory, not of the copy; the picked directory is  *)
(* as it was.                                                              *)
(***************************************************************************)
Below(f, p) == {q \in DOMAIN f : IsPrefix(p, q) /\ q # p}

ImportTarget(f, selected) ==
    LET manifest == JSONparse(f[resolve(selected) \o <<ManifestJson>>].content)
    IN  Location(Path_join(getProjectsFolder, <<sanitize(manifest.value.name)>>))

FoldersWithoutManifest ==
    {e.name : e \in {d \in rawReadDir(fs, Path_absolute(getProjectsFolder)) :
                       /\ d.isDirectory
                       /\ ~IsFile(fs, Location(Path_join(getProjectsFolder,
                                                 <<d.name, ManifestJson>>)))}}

C21_InvalidEntryFailsListing ==
    [][( /\ result'.op = "listProjects"
         /\ FoldersWithoutManifest # {}
         /\ listProjects )
       => ~result'.ok
      ]_vars

\* The listing has failed in a projects folder that holds a valid project
\* next to the folder without manifest.json.
C21_Witness ==
    /\ result.op = "listProjects"
    /\ ~result.ok
    /\ FoldersWithoutManifest # {}
    /\ CreatedFolders # {}

(***************************************************************************)
(* C22.  The texture an addTexture appends has a fresh id, the basename of *)
(* the selected file as originalName, and as extension the suffix of the   *)
(* final path segment with its leading dot ("/t.png" gives ".png"); the    *)
(* copy in assets is named texture_<id><that extension>.                   *)
(* The code reads the extension from this.pathParts[-1], which is          *)
(* undefined, and takes the basename of a path whose parts are the         *)
(* characters of the selected string.                                      *)
(***************************************************************************)
C22_TextureRecord ==
    [][\A h \in Handles, picked \in PickerResults,
          onUndefined \in ExtnameOnUndefined :
         ( /\ result'.op = "addTexture"
           /\ addTexture(h, picked, onUndefined)
           /\ ~picked.cancelled
           /\ result'.ok )
         => LET segment == LastComponent(picked.selected)
                dot == CHOOSE i \in 1..Len(segment) :
                          /\ segment[i] = "."
                          /\ \A j \in (i+1)..Len(segment) : segment[j] # "."
                suffix == SubSeq(segment, dot, Len(segment))
                texture == result'.value
            IN  /\ texture.id \notin IdsOf(handles[h].manifest.textures)
                /\ texture.originalName = segment
                /\ texture.extension = suffix
                /\ IsFile(fs', Location(Path_join(handles[h].path,
                              <<Assets, TextureFilename(texture.id, suffix)>>)))
      ]_vars

(***************************************************************************)
(* C23.  After every createProject, addTexture and removeTexture that      *)
(* completed successfully manifest.json of the project equals the manifest *)
(* in memory; and when the write of the manifest fails, the manifest in    *)
(* memory is not left mutated while the stored one is not.                 *)
(* addTexture and removeTexture mutate the manifest in memory before they  *)
(* await saveManifest and undo nothing when it rejects.                    *)
(***************************************************************************)
C23_ManifestInSync ==
    [][\A h \in Handles :
         ( /\ result'.op \in {"createProject", "addTexture", "removeTexture"}
           /\ result'.h = h
           /\ handles'[h].live )
         => LET project == ProjectOf(handles'[h])
                succeeded ==
                    /\ result'.ok
                    /\ CASE result'.op = "addTexture" -> result'.value # Null
                         [] result'.op = "removeTexture" -> result'.value
                         [] OTHER -> TRUE
            IN  /\ succeeded => HoldsManifest(fs', project, project.manifest)
                /\ (handles[h].live /\ handles'[h].manifest # handles[h].manifest)
                     => HoldsManifest(fs', project, project.manifest)
      ]_vars

(***************************************************************************)
(* C24.  join returns a new Path and leaves the receiver's base and        *)
(* relative parts as they were; the new Path keeps the base of the         *)
(* receiver: p.join(s).absolute() is p.absolute() with s appended.         *)
(* join builds the new Path from the relative parts alone, with no base.   *)
(***************************************************************************)
C24_JoinKeepsBase ==
    [][\A strPathParts \in JoinedParts :
         ( /\ result'.op = "join"
           /\ Path_joinCall(strPathParts) )
         => /\ call' = call
            /\ result'.value.basePathParts = call.this.basePathParts
            /\ Path_absolute(result'.value) =
                 rawJoinPath(<<Path_absolute(call.this)>> \o strPathParts)
      ]_vars

(***************************************************************************)
(* C25.  touch and mkdir with existOk = false on a target that exists are  *)
(* rejected with AlreadyExists, remove with missingOk = false on a target  *)
(* that does not exist is rejected with NotFound, and the file system is   *)
(* then unchanged; in every other case the call acts on the location that  *)
(* exists() looked at.                                                     *)
(* remove deletes relativePath(), while exists() looks at absolute().      *)
(***************************************************************************)
C25_GuardedOperations ==
    [][LET this == call.this
           checked == Path_absolute(this)
       IN  /\ \A existOk \in BOOLEAN :
                (result'.op = "touch" /\ Path_touchCall(existOk))
                => IF Path_exists(fs, this) /\ ~existOk
                   THEN ~result'.ok /\ result'.error = "AlreadyExists" /\ fs' = fs
                   ELSE fs' = rawCreateFile(fs, checked).fs
           /\ \A existOk \in BOOLEAN, recursive \in BOOLEAN :
                (result'.op = "mkdir" /\ Path_mkdirCall(existOk, recursive))
                => IF Path_exists(fs, this) /\ ~existOk
                   THEN ~result'.ok /\ result'.error = "AlreadyExists" /\ fs' = fs
                   ELSE fs' = rawMkdir(fs, checked, recursive).fs
           /\ \A missingOk \in BOOLEAN, recursive \in BOOLEAN :
                (result'.op = "remove" /\ Path_removeCall(missingOk, recursive))
                => IF ~Path_exists(fs, this) /\ ~missingOk
                   THEN ~result'.ok /\ result'.error = "NotFound" /\ fs' = fs
                   ELSE fs' = rawRemoveFileOrDir(fs, checked, recursive).fs
      ]_vars

(***************************************************************************)
(* C26.  For every target that exists isDir() and isFile() classify it:    *)
(* exactly one of them is true, isDir() for a directory and isFile() for   *)
(* a file.                                                                 *)
(* isFile() negates the promise of isDir(), not its value: it is false for *)
(* every target.                                                           *)
(***************************************************************************)
C26_Classified ==
    (call.op = "Path" /\ Path_exists(fs, call.this)) =>
        LET target == Location(call.this)
        IN  /\ result.op = "isDir"
                 => (result.ok /\ result.value = IsDir(fs, target))
            /\ result.op = "isFile"
                 => (result.ok /\ result.value = IsFile(fs, target))

(***************************************************************************)
(* C27.  listProjects leaves the current-project pointer alone: the        *)
(* project getCurrentProject yields is the same before and after a         *)
(* listProjects call.                                                      *)
(* listProjects opens every entry with openProject, which starts           *)
(* setCurrentProject for every project it has opened.                      *)
(***************************************************************************)
C27_ListingKeepsPointer ==
    [][( /\ result'.op = "listProjects"
         /\ listProjects
         /\ getCurrentProjectAt(fs).ok )
       => \A t \in PointerWrites(tasks') \ PointerWrites(tasks) :
            getCurrentProjectAt(
                rawWriteTextFile(fs, Path_absolute(t.path), t.text).fs)
              = getCurrentProjectAt(fs)
      ]_vars

(***************************************************************************)
(* C28.  addTexture and removeTexture change nothing of a manifest but its *)
(* texture list and modifiedAt: version, name, id, rackSize and createdAt  *)
(* keep their values, and no other Project of the caller changes.  A       *)
(* removeTexture that returns true has removed exactly the one record with *)
(* the given id; the records that remain are in the order they had.        *)
(***************************************************************************)
C28_OnlyTexturesAndModifiedAt ==
    [][\A h \in Handles :
         /\ ( /\ result'.op \in {"addTexture", "removeTexture"}
              /\ \/ \E picked \in PickerResults,
                       onUndefined \in ExtnameOnUndefined :
                      addTexture(h, picked, onUndefined)
                 \/ \E textureId \in TextureIds : removeTexture(h, textureId) )
            => LET old == handles[h].manifest
                   new == handles'[h].manifest
               IN  /\ new.version = old.version
                   /\ new.name = old.name
                   /\ new.id = old.id
                   /\ new.rackSize = old.rackSize
                   /\ new.createdAt = old.createdAt
                   /\ handles'[h].path = handles[h].path
                   /\ \A g \in Handles \ {h} : handles'[g] = handles[g]
         /\ \A textureId \in TextureIds :
              ( /\ result'.op = "removeTexture"
                /\ removeTexture(h, textureId)
                /\ result'.ok
                /\ result'.value = TRUE )
              => LET old == handles[h].manifest.textures
                     new == handles'[h].manifest.textures
                 IN  /\ Len(new) = Len(old) - 1
                     /\ new = SelectSeq(old, LAMBDA t : t.id # textureId)
      ]_vars

\* The first of two textures was removed: the second one remains.
C28_Witness ==
    /\ result.op = "removeTexture"
    /\ result.ok
    /\ result.value = TRUE
    /\ result.id = generateUuid(1)
    /\ IdsOf(handles[result.h].manifest.textures) = {generateUuid(2)}

====
